---- MODULE Spec2Model ----
(***************************************************************************)
(* The analysis session engine of src/src/App.tsx: the React state of App, *)
(* its two analysis effects, analyzeFile and the timers they create.       *)
(*                                                                         *)
(* Time is counted in units of updateInterval (50 ms).  Every timer        *)
(* callback is one action; callbacks due at the same instant run in the    *)
(* order their timers were created.  A handler's state updates are applied *)
(* as one batch and the effects whose dependencies changed run right after *)
(* it, in the order they are declared.                                     *)
(***************************************************************************)
EXTENDS Integers, Sequences, FiniteSets, TLC

(***************************************************************************)
(* JavaScript numbers.  algorithmProgress and analysisProgress are sums of *)
(* IEEE-754 doubles compared with 100, so they are kept bit-exact: a       *)
(* double x >= 0 below 128 is the pair [hi, lo] with                       *)
(*     x = (hi * 2^30 + lo) * 2^-54,                                       *)
(* and every operation rounds to 53 significant bits, ties to even.  All   *)
(* doubles the program forms here are 0 or at least 0.25, so they are      *)
(* whole multiples of 2^-54.                                               *)
(***************************************************************************)
LimbBase == 2^30

\* The spacing, in units of 2^-54, of the doubles around hi * 2^30 + lo:
\* 1 below 2^53 units, 2 from there to 2^54, and so on.
Quantum(hi) == 2^Cardinality({k \in 1..8 : hi >= 2^(22 + k)})

\* Round (hi * 2^30 + lo + f) * 2^-54 to the nearest double, ties to even,
\* where below = 0, 1, 2, 3 says that the fraction f of a unit is 0, less
\* than a half, a half, more than a half.
RoundToDouble(hi, lo, below) ==
    LET q    == Quantum(hi)
        r    == lo % q
        odd  == ((lo \div q) % 2) = 1
        up   == IF q = 1
                THEN below = 3 \/ (below = 2 /\ odd)
                ELSE \/ 2 * r > q
                     \/ 2 * r = q /\ (below # 0 \/ odd)
        lo2  == lo - r + (IF up THEN q ELSE 0)
    IN  [hi |-> hi + (lo2 \div LimbBase), lo |-> lo2 % LimbBase]

\* The double of a small integer.
FromInt(n) == [hi |-> n * 2^24, lo |-> 0]

\* x + y in double arithmetic.
FAdd(x, y) ==
    LET lo == x.lo + y.lo
    IN  RoundToDouble(x.hi + y.hi + (lo \div LimbBase), lo % LimbBase, 0)

\* x >= y.
FGeq(x, y) == x.hi > y.hi \/ (x.hi = y.hi /\ x.lo >= y.lo)

\* One step of long division by d: 18 more binary places of the quotient
\* v (limbs hi, lo, remainder rem); d is below 2^13.
DivStep(v, d) ==
    LET n  == v.rem * 2^18
        lo == (v.lo % 2^12) * 2^18 + (n \div d)
    IN  [hi |-> v.hi * 2^18 + (v.lo \div 2^12), lo |-> lo, rem |-> n % d]

\* n / d in double arithmetic, for integers 0 <= n < 128 * d and 0 < d < 2^13:
\* 54 binary places of the quotient, then rounded.
FDiv(n, d) ==
    LET v     == DivStep(DivStep(DivStep([hi |-> 0, lo |-> n \div d, rem |-> n % d], d), d), d)
        below == IF v.rem = 0 THEN 0
                 ELSE IF 2 * v.rem < d THEN 1
                 ELSE IF 2 * v.rem = d THEN 2 ELSE 3
    IN  RoundToDouble(v.hi, v.lo, below)

(***************************************************************************)
(* The algorithm roster.  Accuracies are exact rationals: baseAccuracy and *)
(* targetAccuracy are written in thousandths, and algorithmAccuracy in     *)
(* units of 1 / (1000 * AccuracyScale), in which every accuracy increment  *)
(* is a whole number.  The doubles of the program differ from these by     *)
(* rounding errors far below the 0.001 steps between the values compared.  *)
(***************************************************************************)
ANALYSIS_ALGORITHMS ==
    << [name |-> "Deep Neural Network Analysis", duration |-> 8000, baseAccuracy |-> 970],
       [name |-> "Random Forest Classification", duration |-> 5000, baseAccuracy |-> 930],
       [name |-> "Support Vector Machine",       duration |-> 6000, baseAccuracy |-> 910],
       [name |-> "Ensemble Learning Model",      duration |-> 7000, baseAccuracy |-> 950],
       [name |-> "Feature Extraction Pipeline",  duration |-> 4000, baseAccuracy |-> 890] >>

Algorithms == DOMAIN ANALYSIS_ALGORITHMS

AlgorithmNames == {ANALYSIS_ALGORITHMS[a].name : a \in Algorithms}

updateInterval == 50

\* The number of update intervals in an algorithm's duration.
Ticks(a) == ANALYSIS_ALGORITHMS[a].duration \div updateInterval

Min(a, b) == IF a <= b THEN a ELSE b

Max(a, b) == IF a >= b THEN a ELSE b

RECURSIVE Gcd(_, _)
Gcd(a, b) == IF b = 0 THEN a ELSE Gcd(b, a % b)

RECURSIVE LcmOfTicks(_)
LcmOfTicks(n) ==
    IF n = 0 THEN 1
    ELSE LET l == LcmOfTicks(n - 1)
         IN  (l * Ticks(n)) \div Gcd(l, Ticks(n))

AccuracyScale == LcmOfTicks(Len(ANALYSIS_ALGORITHMS))

RECURSIVE SumSeq(_)
SumSeq(s) == IF s = <<>> THEN 0 ELSE Head(s) + SumSeq(Tail(s))

getAlgorithmAccuracy_unclamped(fileName, baseAccuracy) ==
    LET hash      == SumSeq(fileName)
        variation == (hash % 100) - 50
    IN  baseAccuracy + variation

\* getAlgorithmAccuracy, in thousandths; fileName is the sequence of the
\* name's character codes.
getAlgorithmAccuracy(fileName, baseAccuracy) ==
    LET hash      == SumSeq(fileName)
        variation == (hash % 100) - 50
    IN  Min(Max(baseAccuracy + variation, 850), 990)

\* The values a ticker's closure captures when the effect creates it.
incrementAmount == [a \in Algorithms |-> FDiv(100 * updateInterval, ANALYSIS_ALGORITHMS[a].duration)]

targetAccuracy(fileName, a) ==
    getAlgorithmAccuracy(fileName, ANALYSIS_ALGORITHMS[a].baseAccuracy) * AccuracyScale

startingAccuracy == 760 * AccuracyScale

accuracyIncrementAmount(fileName, a) ==
    ((targetAccuracy(fileName, a) - startingAccuracy) * updateInterval)
        \div ANALYSIS_ALGORITHMS[a].duration

maxDuration_min ==
    CHOOSE d \in {ANALYSIS_ALGORITHMS[a].duration : a \in Algorithms} :
        \A a \in Algorithms : ANALYSIS_ALGORITHMS[a].duration >= d

maxDuration ==
    CHOOSE d \in {ANALYSIS_ALGORITHMS[a].duration : a \in Algorithms} :
        \A a \in Algorithms : ANALYSIS_ALGORITHMS[a].duration <= d

(***************************************************************************)
(* generateConsistentResult.  Probabilities are in hundredths; a list      *)
(* filtered from a catalog is the sequence of the catalog indices kept     *)
(* (from 0); an optional field is <<>> when undefined, else <<value>>.     *)
(***************************************************************************)
CKD_PARAMETERS ==
    << [name |-> "Blood Pressure (BP)",        unit |-> "mmHg"],
       [name |-> "Specific Gravity (SG)",      unit |-> ""],
       [name |-> "Albumin (AL)",               unit |-> "g/dL"],
       [name |-> "Blood Glucose Random (BGR)", unit |-> "mg/dL"],
       [name |-> "Blood Urea (BU)",            unit |-> "mg/dL"],
       [name |-> "Serum Creatinine (SC)",      unit |-> "mg/dL"],
       [name |-> "Sodium (SOD)",               unit |-> "mEq/L"],
       [name |-> "Potassium (POT)",            unit |-> "mEq/L"],
       [name |-> "Hemoglobin (HEMO)",          unit |-> "g/dL"],
       [name |-> "Packed Cell Volume (PCV)",   unit |-> "%"],
       [name |-> "White Blood Cells (WC)",     unit |-> "/cu.mm"],
       [name |-> "Red Blood Cells Count (RC)", unit |-> "millions/cu.mm"] >>

RECURSIVE FilterIndex_shifted(_, _, _, _)
FilterIndex_shifted(from, n, hash, m) ==
    IF from >= n THEN <<>>
    ELSE (IF (hash + from + 1) % m = 0 THEN <<from>> ELSE <<>>)
         \o FilterIndex_shifted(from + 1, n, hash, m)

RECURSIVE FilterIndex(_, _, _, _)
\* The indices i in from..(n-1) with (hash + i) % m = 0, ascending.
FilterIndex(from, n, hash, m) ==
    IF from >= n THEN <<>>
    ELSE (IF (hash + from) % m = 0 THEN <<from>> ELSE <<>>)
         \o FilterIndex(from + 1, n, hash, m)

Slice(s, n) == SubSeq(s, 1, Min(n, Len(s)))

\* type.startsWith('image/'), over the media types the model draws.
IsImageType(type) == type \in {"image/png", "image/jpeg"}

getOtherIssues(hash) == FilterIndex(0, 5, hash, 3)

getRecommendations(hash) ==
    LET probability == hash % 100
        tier == IF probability > 70 THEN "high"
                ELSE IF probability > 30 THEN "medium" ELSE "low"
    IN  [tier |-> tier, kept |-> Slice(FilterIndex(0, 5, hash, 2), 3)]

generateParameters_catalogIndex(hash) ==
    LET kept == FilterIndex(0, Len(CKD_PARAMETERS), hash, 3)
    IN  [index0 \in 1..Len(kept) |->
            LET index  == kept[index0]
                param  == CKD_PARAMETERS[kept[index0] + 1]
                value  == (hash * (index + 1)) % 100
                status == IF (hash + Len(param.name)) % 3 = 0 THEN "high"
                          ELSE IF (hash + Len(param.name)) % 3 = 1 THEN "low"
                          ELSE "normal"
            IN  [ name |-> param.name,
                  value |-> [tenths |-> value * 10, unit |-> param.unit],
                  status |-> status,
                  description |-> [template |-> status, name |-> param.name] ]]

\* generateParameters: index is the position among the parameters kept, as
\* the callback of map receives it; toFixed(1) gives the value in tenths.
generateParameters(hash) ==
    LET kept == FilterIndex(0, Len(CKD_PARAMETERS), hash, 3)
    IN  [index0 \in 1..Len(kept) |->
            LET index  == index0 - 1
                param  == CKD_PARAMETERS[kept[index0] + 1]
                value  == (hash * (index + 1)) % 100
                status == IF (hash + Len(param.name)) % 3 = 0 THEN "high"
                          ELSE IF (hash + Len(param.name)) % 3 = 1 THEN "low"
                          ELSE "normal"
            IN  [ name |-> param.name,
                  value |-> [tenths |-> value * 10, unit |-> param.unit],
                  status |-> status,
                  description |-> [template |-> status, name |-> param.name] ]]

generateConsistentResult_nameHash(file) ==
    LET fileHash == SumSeq(file.name) + file.size
        isImage  == IsImageType(file.type)
    IN  [ hasSwelling    |-> (fileHash % 2) = 0,
          hasShrinkage   |-> (fileHash % 3) = 0,
          hasPores       |-> (fileHash % 4) = 0,
          otherIssues    |-> getOtherIssues(fileHash),
          ckdProbability |-> fileHash % 100,
          confidence     |-> 85 + (fileHash % 15),
          recommendations |-> getRecommendations(fileHash),
          parameters     |-> IF ~isImage THEN <<generateParameters(fileHash)>> ELSE <<>>,
          dietaryRecommendations   |-> Slice(FilterIndex(0, 10, fileHash, 3), 5),
          lifestyleRecommendations |-> Slice(FilterIndex(0, 10, fileHash, 3), 5),
          isImage        |-> isImage ]

generateConsistentResult_swapped(file) ==
    LET fileHash == Len(file.name) + file.size
        isImage  == IsImageType(file.type)
    IN  [ hasSwelling    |-> (fileHash % 2) = 0,
          hasShrinkage   |-> (fileHash % 4) = 0,
          hasPores       |-> (fileHash % 3) = 0,
          otherIssues    |-> getOtherIssues(fileHash),
          ckdProbability |-> fileHash % 100,
          confidence     |-> 85 + (fileHash % 15),
          recommendations |-> getRecommendations(fileHash),
          parameters     |-> IF ~isImage THEN <<generateParameters(fileHash)>> ELSE <<>>,
          dietaryRecommendations   |-> Slice(FilterIndex(0, 10, fileHash, 3), 5),
          lifestyleRecommendations |-> Slice(FilterIndex(0, 10, fileHash, 3), 5),
          isImage        |-> isImage ]

generateConsistentResult_wide(file) ==
    LET fileHash == Len(file.name) + file.size
        isImage  == IsImageType(file.type)
    IN  [ hasSwelling    |-> (fileHash % 2) = 0,
          hasShrinkage   |-> (fileHash % 3) = 0,
          hasPores       |-> (fileHash % 4) = 0,
          otherIssues    |-> getOtherIssues(fileHash),
          ckdProbability |-> fileHash % 100,
          confidence     |-> 85 + (fileHash % 16),
          recommendations |-> getRecommendations(fileHash),
          parameters     |-> IF ~isImage THEN <<generateParameters(fileHash)>> ELSE <<>>,
          dietaryRecommendations   |-> Slice(FilterIndex(0, 10, fileHash, 3), 5),
          lifestyleRecommendations |-> Slice(FilterIndex(0, 10, fileHash, 3), 5),
          isImage        |-> isImage ]

generateConsistentResult_always(file) ==
    LET fileHash == Len(file.name) + file.size
        isImage  == IsImageType(file.type)
    IN  [ hasSwelling    |-> (fileHash % 2) = 0,
          hasShrinkage   |-> (fileHash % 3) = 0,
          hasPores       |-> (fileHash % 4) = 0,
          otherIssues    |-> getOtherIssues(fileHash),
          ckdProbability |-> fileHash % 100,
          confidence     |-> 85 + (fileHash % 15),
          recommendations |-> getRecommendations(fileHash),
          parameters     |-> <<generateParameters(fileHash)>>,
          dietaryRecommendations   |-> Slice(FilterIndex(0, 10, fileHash, 3), 5),
          lifestyleRecommendations |-> Slice(FilterIndex(0, 10, fileHash, 3), 5),
          isImage        |-> isImage ]

generateConsistentResult(file) ==
    LET fileHash == Len(file.name) + file.size
        isImage  == IsImageType(file.type)
    IN  [ hasSwelling    |-> (fileHash % 2) = 0,
          hasShrinkage   |-> (fileHash % 3) = 0,
          hasPores       |-> (fileHash % 4) = 0,
          otherIssues    |-> getOtherIssues(fileHash),
          ckdProbability |-> fileHash % 100,
          confidence     |-> 85 + (fileHash % 15),
          recommendations |-> getRecommendations(fileHash),
          parameters     |-> IF ~isImage THEN <<generateParameters(fileHash)>> ELSE <<>>,
          dietaryRecommendations   |-> Slice(FilterIndex(0, 10, fileHash, 3), 5),
          lifestyleRecommendations |-> Slice(FilterIndex(0, 10, fileHash, 3), 5),
          isImage        |-> isImage ]

(***************************************************************************)
(* Bounds of the model and the files the user may upload.                  *)
(***************************************************************************)
\* The number of calls of analyzeFile in a behaviour.
MaxSubmits == 3

\* While timers are pending the user acts (uploads a file, goes back to the
\* upload page) only at whole multiples of UserGrid update intervals after
\* the first upload of the busy period, between the timer callbacks of two
\* instants, and uploads at most one file at such an instant.
UserGrid == 60

Files ==
    { [name |-> <<115, 99, 97, 110, 46, 112, 110, 103>>,   \* "scan.png"
       size |-> 92, type |-> "image/png"],
      [name |-> <<116, 101, 115, 116, 46, 112, 100, 102>>, \* "test.pdf"
       size |-> 95, type |-> "application/pdf"] }

(***************************************************************************)
(* The state of App (lines 211-227), the pending timers, and history       *)
(* variables that record what the user did.                                *)
(***************************************************************************)
VARIABLES
    isAnalyzing,          \* boolean
    result,               \* <<>> for null, else <<the AnalysisResult>>
    selectedImage,        \* 0 for null, else an object URL
    analysisStep,
    analysisProgress,     \* a double
    processingImage,      \* 0 for null, else an object URL
    currentFileName,      \* character codes; <<>> is the empty string
    algorithmProgress,    \* algorithm -> double
    algorithmAccuracy,    \* algorithm -> accuracy, see AccuracyScale
    completedAlgorithms,  \* sequence of algorithm names
    showAnalysisPage,     \* boolean
    timers,               \* pending timers, in the order of their creation
    clock,                \* update intervals passed, modulo UserGrid
    session,              \* history: the number of analyzeFile calls so far
    submitted,            \* history: <<the file of the latest call>>
    elapsed,              \* history: update intervals since the latest call
    cleanStart            \* history: the latest call found no timer pending

appState == <<isAnalyzing, result, selectedImage, analysisStep, analysisProgress,
              processingImage, currentFileName, algorithmProgress,
              algorithmAccuracy, completedAlgorithms, showAnalysisPage, timers>>

vars == <<appState, clock, session, submitted, elapsed, cleanStart>>

\* The current state of App as one record, which a handler updates.
Cur ==
    [ isAnalyzing |-> isAnalyzing, result |-> result,
      selectedImage |-> selectedImage, analysisStep |-> analysisStep,
      analysisProgress |-> analysisProgress, processingImage |-> processingImage,
      currentFileName |-> currentFileName, algorithmProgress |-> algorithmProgress,
      algorithmAccuracy |-> algorithmAccuracy,
      completedAlgorithms |-> completedAlgorithms,
      showAnalysisPage |-> showAnalysisPage, timers |-> timers ]

\* A timer: its callback (kind and the values its closure captured), the
\* update intervals until it is due, its period (0: setTimeout), and the
\* analyzeFile call during or after which it was created (gen).
Timer(kind, due, period, gen, alg, fileName, res, total) ==
    [ kind |-> kind, due |-> due, period |-> period, gen |-> gen, alg |-> alg,
      fileName |-> fileName, res |-> res, total |-> total ]

ZeroProgress == [a \in Algorithms |-> FromInt(0)]

StartAccuracy == [a \in Algorithms |-> startingAccuracy]

RemoveAt(s, i) == SubSeq(s, 1, i - 1) \o SubSeq(s, i + 1, Len(s))

(***************************************************************************)
(* The overall-progress effect, lines 244-275, run after a render that     *)
(* leaves the state s: it runs when isAnalyzing or processingImage differ  *)
(* from the previous render, after the cleanup of its previous run.        *)
(***************************************************************************)
OverallProgressTimers == {"progressInterval", "stepInterval", "analysisTimer"}

NotOverallProgressTimer(t) == t.kind \notin OverallProgressTimers

OverallProgressEffect(s, gen) ==
    IF s.isAnalyzing = isAnalyzing /\ s.processingImage = processingImage
    THEN s
    ELSE LET cleaned == SelectSeq(s.timers, NotOverallProgressTimer)
             totalDuration == IF s.processingImage # 0 THEN 10000 ELSE 15000
         IN  IF s.isAnalyzing
             THEN [s EXCEPT !.timers = cleaned \o
                     << Timer("progressInterval", 1, 1, gen, 0, <<>>, <<>>, totalDuration),
                        Timer("stepInterval", 2000 \div updateInterval,
                              2000 \div updateInterval, gen, 0, <<>>, <<>>, 0),
                        Timer("analysisTimer", totalDuration \div updateInterval, 0,
                              gen, 0, <<>>, <<>>, 0) >>]
             ELSE [s EXCEPT !.timers = cleaned,
                            !.analysisProgress = FromInt(0),
                            !.analysisStep = 0]

(***************************************************************************)
(* The algorithm-progress effect, lines 277-318: it runs when isAnalyzing  *)
(* or currentFileName differ from the previous render.  It returns no      *)
(* cleanup, so the timers of its previous run stay.                        *)
(***************************************************************************)
AlgorithmTickers(fileName, gen) ==
    [a \in Algorithms |-> Timer("algorithmTicker", 1, 1, gen, a, fileName, <<>>, 0)]

AlgorithmProgressEffect(s, gen) ==
    IF s.isAnalyzing = isAnalyzing /\ s.currentFileName = currentFileName
    THEN s
    ELSE IF s.isAnalyzing /\ s.currentFileName # <<>>
         THEN [s EXCEPT !.timers = s.timers
                 \o AlgorithmTickers(s.currentFileName, gen)
                 \o << Timer("revealTimer", (maxDuration + 1000) \div updateInterval, 0,
                             gen, 0, <<>>, <<>>, 0) >>]
         ELSE [s EXCEPT !.algorithmProgress = ZeroProgress,
                        !.algorithmAccuracy = StartAccuracy,
                        !.completedAlgorithms = <<>>]

\* Render the state s a handler leaves and run the effects; gen is the
\* number of analyzeFile calls so far.
Commit(s, gen) ==
    \E rendered \in {s} :
    \E afterFirst \in {OverallProgressEffect(rendered, gen)} :
    \E t \in {AlgorithmProgressEffect(afterFirst, gen)} :
        /\ isAnalyzing' = t.isAnalyzing
        /\ result' = t.result
        /\ selectedImage' = t.selectedImage
        /\ analysisStep' = t.analysisStep
        /\ analysisProgress' = t.analysisProgress
        /\ processingImage' = t.processingImage
        /\ currentFileName' = t.currentFileName
        /\ algorithmProgress' = t.algorithmProgress
        /\ algorithmAccuracy' = t.algorithmAccuracy
        /\ completedAlgorithms' = t.completedAlgorithms
        /\ showAnalysisPage' = t.showAnalysisPage
        /\ timers' = t.timers

\* The state after App is mounted: the effects have run once, not analyzing.
Init ==
    /\ isAnalyzing = FALSE
    /\ result = <<>>
    /\ selectedImage = 0
    /\ analysisStep = 0
    /\ analysisProgress = FromInt(0)
    /\ processingImage = 0
    /\ currentFileName = <<>>
    /\ algorithmProgress = ZeroProgress
    /\ algorithmAccuracy = StartAccuracy
    /\ completedAlgorithms = <<>>
    /\ showAnalysisPage = FALSE
    /\ timers = <<>>
    /\ clock = 0
    /\ session = 0
    /\ submitted = <<>>
    /\ elapsed = 0
    /\ cleanStart = TRUE

(***************************************************************************)
(* The user.                                                               *)
(***************************************************************************)
DueTimers == {i \in DOMAIN timers : timers[i].due = 0}

TimerDue == DueTimers # {}

UserMayAct == ~TimerDue /\ (clock = 0 \/ timers = <<>>)

\* analyzeFile, lines 320-342; the FileUpload components that call it are
\* rendered on the upload page only (line 367).
analyzeFile(file) ==
    /\ UserMayAct
    /\ ~showAnalysisPage
    /\ session < MaxSubmits
    /\ session = 0 \/ elapsed > 0
    /\ session' = session + 1
    /\ submitted' = <<file>>
    /\ elapsed' = 0
    /\ cleanStart' = (timers = <<>>)
    /\ clock' = IF timers = <<>> THEN 0 ELSE clock
    /\ LET imageUrl == session + 1
           image == IF IsImageType(file.type) THEN imageUrl ELSE 0
           mockResult == generateConsistentResult(file)
       IN  Commit([Cur EXCEPT
               !.showAnalysisPage = TRUE,
               !.isAnalyzing = TRUE,
               !.result = <<>>,
               !.completedAlgorithms = <<>>,
               !.currentFileName = file.name,
               !.processingImage = image,
               !.selectedImage = image,
               !.timers = Append(timers,
                   Timer("resultTimer", (maxDuration + 1000) \div updateInterval, 0,
                         session + 1, 0, <<>>, <<mockResult>>, 0))],
               session + 1)

AnalyzeFile == \E file \in Files : analyzeFile(file)

\* The "Back to Upload" button, lines 455-460.
BackToUpload ==
    /\ UserMayAct
    /\ showAnalysisPage
    /\ Commit([Cur EXCEPT !.showAnalysisPage = FALSE], session)
    /\ UNCHANGED <<clock, session, submitted, elapsed, cleanStart>>

(***************************************************************************)
(* Timers.  Time passes while no callback is due; the callback that runs   *)
(* next is that of the first timer due.                                    *)
(***************************************************************************)
Advance ==
    /\ timers # <<>>
    /\ ~TimerDue
    /\ timers' = [i \in DOMAIN timers |-> [timers[i] EXCEPT !.due = @ - 1]]
    /\ clock' = (clock + 1) % UserGrid
    /\ elapsed' = elapsed + 1
    /\ UNCHANGED <<isAnalyzing, result, selectedImage, analysisStep, analysisProgress,
                   processingImage, currentFileName, algorithmProgress,
                   algorithmAccuracy, completedAlgorithms, showAnalysisPage,
                   session, submitted, cleanStart>>

NextDue == CHOOSE i \in DueTimers : \A j \in DueTimers : i <= j

\* The timers after the callback of timer i has run: a setTimeout is gone,
\* a setInterval is due again after its period unless the callback cleared it.
Rearmed(i, cleared) ==
    IF timers[i].period = 0 \/ cleared THEN RemoveAt(timers, i)
    ELSE [timers EXCEPT ![i].due = timers[i].period]

Fired(kind) == TimerDue /\ timers[NextDue].kind = kind

History ==
    /\ clock' = IF timers' = <<>> THEN 0 ELSE clock
    /\ UNCHANGED <<session, submitted, elapsed, cleanStart>>

\* 100 / (totalDuration / 50), line 253, for the two values of totalDuration.
overallIncrement == [total \in {10000, 15000} |-> FDiv(100, total \div updateInterval)]

\* The updater passed to setAlgorithmProgress, lines 290-298: the new
\* progress of algorithm a and whether the algorithm has completed.
ProgressUpdate_unclamped(prev, a) ==
    LET newProgress == FAdd(prev, incrementAmount[a])
    IN  [done |-> FGeq(newProgress, FromInt(100)), value |-> newProgress]

ProgressUpdate(prev, a) ==
    LET newProgress == FAdd(prev, incrementAmount[a])
    IN  IF FGeq(newProgress, FromInt(100))
        THEN [done |-> TRUE, value |-> FromInt(100)]
        ELSE [done |-> FALSE, value |-> newProgress]

\* The updater passed to setAlgorithmAccuracy, lines 300-304.
AccuracyUpdate(prev, fileName, a) ==
    LET currentAccuracy == IF prev = 0 THEN startingAccuracy ELSE prev
    IN  Min(currentAccuracy + accuracyIncrementAmount(fileName, a),
            targetAccuracy(fileName, a))

\* The callback of an algorithm's setInterval, lines 289-305.
AlgorithmTick ==
    /\ Fired("algorithmTicker")
    /\ \E i \in {NextDue} :
       \E a \in {timers[i].alg} :
       \E p \in {ProgressUpdate(algorithmProgress[a], a)} :
       \E newAccuracy \in {AccuracyUpdate(algorithmAccuracy[a], timers[i].fileName, a)} :
           Commit([Cur EXCEPT
               !.timers = Rearmed(i, p.done),
               !.completedAlgorithms =
                   IF p.done THEN Append(@, ANALYSIS_ALGORITHMS[a].name) ELSE @,
               !.algorithmProgress[a] = p.value,
               !.algorithmAccuracy[a] = newAccuracy],
               session)
    /\ History

\* The callbacks that end the analysis: the roster's reveal timer, lines
\* 309-312, and analysisTimer, lines 261-264.
EndAnalysisTimer ==
    /\ TimerDue
    /\ timers[NextDue].kind \in {"revealTimer", "analysisTimer"}
    /\ Commit([Cur EXCEPT !.timers = Rearmed(NextDue, FALSE),
                          !.isAnalyzing = FALSE,
                          !.processingImage = 0],
              session)
    /\ History

ResultTimer_keepsFirst ==
    /\ Fired("resultTimer")
    /\ Commit([Cur EXCEPT !.timers = Rearmed(NextDue, FALSE),
                          !.result = IF @ = <<>> THEN timers[NextDue].res ELSE @],
              session)
    /\ History

\* The callback analyzeFile schedules, lines 339-341.
ResultTimer ==
    /\ Fired("resultTimer")
    /\ Commit([Cur EXCEPT !.timers = Rearmed(NextDue, FALSE),
                          !.result = timers[NextDue].res],
              session)
    /\ History

\* The callback of progressInterval, lines 247-255.
ProgressTick ==
    /\ Fired("progressInterval")
    /\ \E i \in {NextDue} :
       \E full \in {FGeq(analysisProgress, FromInt(100))} :
       \E newProgress \in {IF full THEN FromInt(100)
                            ELSE FAdd(analysisProgress, overallIncrement[timers[i].total])} :
           Commit([Cur EXCEPT !.timers = Rearmed(i, full),
                              !.analysisProgress = newProgress],
                  session)
    /\ History

StepTick_nowrap ==
    /\ Fired("stepInterval")
    /\ Commit([Cur EXCEPT !.timers = Rearmed(NextDue, FALSE),
                          !.analysisStep = @ + 1],
              session)
    /\ History

\* The callback of stepInterval, lines 257-259.
StepTick ==
    /\ Fired("stepInterval")
    /\ Commit([Cur EXCEPT !.timers = Rearmed(NextDue, FALSE),
                          !.analysisStep = (@ + 1) % 4],
              session)
    /\ History

Next ==
    \/ AnalyzeFile
    \/ BackToUpload
    \/ Advance
    \/ AlgorithmTick
    \/ EndAnalysisTimer
    \/ ResultTimer
    \/ ProgressTick
    \/ StepTick

Spec == Init /\ [][Next]_vars

\* A step of the timers: time passing or the callback of the timer due.
\* The event loop runs every callback that is due, and time does not stop.
TimerStep ==
    \/ Advance
    \/ AlgorithmTick
    \/ EndAnalysisTimer
    \/ ResultTimer
    \/ ProgressTick
    \/ StepTick

FairSpec == Spec /\ WF_vars(TimerStep)

(***************************************************************************)
(* The pure functions on their own: generateConsistentResult as analyzeFile *)
(* calls it (line 336) and getAlgorithmAccuracy as the algorithm-progress   *)
(* effect calls it for each algorithm (line 282), for a file drawn from     *)
(* ResultFiles.  submitted holds the file, result the value of              *)
(* generateConsistentResult, algorithmAccuracy the five target accuracies.  *)
(***************************************************************************)
\* The largest file size drawn, in bytes.
MaxSize == 299

\* The largest first character code of the names "?.pdf" drawn.
MaxCode == 147

Types == {"image/png", "image/jpeg", "application/pdf", "text/plain"}

BaseNames ==
    { <<115, 99, 97, 110, 46, 112, 110, 103>>,   \* "scan.png"
      <<116, 101, 115, 116, 46, 112, 100, 102>>, \* "test.pdf"
      <<97, 46, 116, 120, 116>> }                \* "a.txt"

ProbeNames == {<<c, 46, 112, 100, 102>> : c \in 48..MaxCode}

ResultFiles ==
    {[name |-> n, size |-> z, type |-> t] : n \in BaseNames, z \in 0..MaxSize, t \in Types}
    \cup {[name |-> n, size |-> 92, type |-> "application/pdf"] : n \in ProbeNames}

ResultInit ==
    /\ isAnalyzing = FALSE
    /\ result = <<>>
    /\ selectedImage = 0
    /\ analysisStep = 0
    /\ analysisProgress = FromInt(0)
    /\ processingImage = 0
    /\ currentFileName = <<>>
    /\ algorithmProgress = ZeroProgress
    /\ algorithmAccuracy = StartAccuracy
    /\ completedAlgorithms = <<>>
    /\ showAnalysisPage = FALSE
    /\ timers = <<>>
    /\ clock = 0
    /\ session = 0
    /\ submitted \in {<<file>> : file \in ResultFiles}
    /\ elapsed = 0
    /\ cleanStart = TRUE

\* const mockResult = generateConsistentResult(file), line 336.
Synthesize ==
    /\ result = <<>>
    /\ result' = <<generateConsistentResult(submitted[1])>>
    /\ UNCHANGED <<isAnalyzing, selectedImage, analysisStep, analysisProgress,
                   processingImage, currentFileName, algorithmProgress,
                   algorithmAccuracy, completedAlgorithms, showAnalysisPage,
                   timers, clock, session, submitted, elapsed, cleanStart>>

\* const targetAccuracy = getAlgorithmAccuracy(currentFileName,
\* algorithm.baseAccuracy) for each algorithm of the roster, lines 279-282.
TargetAccuracies ==
    /\ algorithmAccuracy = StartAccuracy
    /\ currentFileName' = submitted[1].name
    /\ algorithmAccuracy' = [a \in Algorithms |-> targetAccuracy(submitted[1].name, a)]
    /\ UNCHANGED <<isAnalyzing, result, selectedImage, analysisStep, analysisProgress,
                   processingImage, algorithmProgress, completedAlgorithms,
                   showAnalysisPage, timers, clock, session, submitted, elapsed,
                   cleanStart>>

ResultNext == Synthesize \/ TargetAccuracies

ResultSpec == ResultInit /\ [][ResultNext]_vars


(***************************************************************************)
(* Properties.                                                             *)
(***************************************************************************)
Range(s) == {s[i] : i \in DOMAIN s}

NoDuplicates(s) == \A i, j \in DOMAIN s : s[i] = s[j] => i = j

Hundred == FromInt(100)

FLeq(x, y) == FGeq(y, x)

\* The algorithm of a name of the roster.
AlgorithmOf(name) == CHOOSE a \in Algorithms : ANALYSIS_ALGORITHMS[a].name = name

RunStateAtStart ==
    /\ algorithmProgress = ZeroProgress
    /\ algorithmAccuracy = StartAccuracy
    /\ completedAlgorithms = <<>>

\* The callback about to run belongs to a timer that an earlier session made.
StaleTimerFires == TimerDue /\ timers[NextDue].gen < session

\* The latest upload found App idle with no timer pending, and its session
\* is still analyzing: a session run from idle with no further upload.
UninterruptedSession == session > 0 /\ cleanStart /\ isAnalyzing

\* C1: when a file is uploaded while the previous session is analyzing, the
\* run state right after the upload is {progress 0, accuracy 0.76, not
\* completed} for every algorithm with completedAlgorithms empty, and no
\* callback of a timer of an earlier session changes algorithmProgress,
\* algorithmAccuracy or completedAlgorithms afterwards.
C1_RestartResetsRunState ==
    [][ /\ (isAnalyzing /\ session' = session + 1) =>
               /\ algorithmProgress' = ZeroProgress
               /\ algorithmAccuracy' = StartAccuracy
               /\ completedAlgorithms' = <<>>
        /\ StaleTimerFires =>
               UNCHANGED <<algorithmProgress, algorithmAccuracy, completedAlgorithms>>
      ]_vars

\* C2: no algorithm ticker and no reveal timer of an earlier session is
\* pending once a later file has been uploaded or once isAnalyzing is false,
\* and there is at most one pending ticker for each algorithm.
C2_NoStaleTimers ==
    /\ \A i \in DOMAIN timers :
           timers[i].kind \in {"algorithmTicker", "revealTimer"} =>
               timers[i].gen = session /\ isAnalyzing
    /\ \A i, j \in DOMAIN timers :
           /\ timers[i].kind = "algorithmTicker"
           /\ timers[j].kind = "algorithmTicker"
           /\ timers[i].alg = timers[j].alg
           => i = j

\* C3: a visible result (result non-null while not analyzing) is the result
\* computed for the file uploaded last.
C3_VisibleResultIsLatest ==
    (result # <<>> /\ ~isAnalyzing) =>
        result = <<generateConsistentResult(submitted[1])>>

\* C4: completedAlgorithms never holds a name twice, and a step either
\* leaves it alone, empties it or appends one name to it.
C4_CompletionOrderAppendOnly ==
    [][ /\ NoDuplicates(completedAlgorithms')
        /\ \/ completedAlgorithms' = completedAlgorithms
           \/ completedAlgorithms' = <<>>
           \/ \E n \in AlgorithmNames :
                  completedAlgorithms' = Append(completedAlgorithms, n)
      ]_vars

\* C5: while a session is analyzing, a ticker callback leaves the progress
\* and the accuracy of every algorithm at least what they were.
C5_TicksAreMonotonic ==
    [][ (isAnalyzing /\ Fired("algorithmTicker")) =>
            \A a \in Algorithms :
                /\ FGeq(algorithmProgress'[a], algorithmProgress[a])
                /\ algorithmAccuracy'[a] >= algorithmAccuracy[a]
      ]_vars

\* C6: in a session run from idle with no further upload, once the
\* callbacks of the n-th update interval have run, an algorithm of duration
\* d has progress below 100 if n < d / 50, and if n >= d / 50 it has
\* progress exactly 100 and its accuracy is targetAccuracy.
C6_CompletesAtNominalDuration ==
    (UninterruptedSession /\ ~TimerDue) =>
        \A a \in Algorithms :
            IF elapsed < Ticks(a)
            THEN ~FGeq(algorithmProgress[a], Hundred)
            ELSE /\ algorithmProgress[a] = Hundred
                 /\ algorithmAccuracy[a] = targetAccuracy(currentFileName, a)

\* C7: a name is in completedAlgorithms only if the progress of its
\* algorithm is 100; and when the reveal timer of a session run from idle
\* with no further upload is about to fire, completedAlgorithms holds each
\* of the five names exactly once.
C7_AllCompletedAtReveal ==
    /\ \A n \in Range(completedAlgorithms) :
           algorithmProgress[AlgorithmOf(n)] = Hundred
    /\ (UninterruptedSession /\ Fired("revealTimer") /\ timers[NextDue].gen = session) =>
           /\ Len(completedAlgorithms) = Len(ANALYSIS_ALGORITHMS)
           /\ Range(completedAlgorithms) = AlgorithmNames

C7_Witness ==
    /\ UninterruptedSession
    /\ Fired("revealTimer")
    /\ timers[NextDue].gen = session
    /\ Len(completedAlgorithms) = Len(ANALYSIS_ALGORITHMS)

\* C8: the progress of every algorithm is between 0 and 100, and a name
\* leaves completedAlgorithms only in a step that uploads a file or ends
\* the analysis.
C8_ProgressBoundedCompletedStays ==
    [][ /\ \A a \in Algorithms :
               /\ FGeq(algorithmProgress'[a], FromInt(0))
               /\ FLeq(algorithmProgress'[a], Hundred)
        /\ \A n \in Range(completedAlgorithms) :
               n \in Range(completedAlgorithms')
               \/ session' = session + 1
               \/ (isAnalyzing /\ ~isAnalyzing')
      ]_vars

C8_Witness ==
    /\ isAnalyzing
    /\ completedAlgorithms # <<>>
    /\ \E a \in Algorithms :
           /\ ANALYSIS_ALGORITHMS[a].name \in Range(completedAlgorithms)
           /\ algorithmProgress[a] = Hundred
    /\ \E a \in Algorithms :
           /\ ~FGeq(algorithmProgress[a], Hundred)
           /\ algorithmProgress[a] # FromInt(0)

\* C9: isAnalyzing turns false exactly when the reveal timer fires
\* (maxDuration + 1000) ms = 180 update intervals after the latest upload.
C9_RevealAtNineSeconds ==
    [][ (isAnalyzing /\ ~isAnalyzing') =>
            /\ Fired("revealTimer")
            /\ elapsed = (maxDuration + 1000) \div updateInterval
      ]_vars

\* C10: while not analyzing, every algorithm's run state is {progress 0,
\* accuracy 0.76, not completed} and completedAlgorithms is empty.
C10_IdleRunStateIsReset == ~isAnalyzing => RunStateAtStart

\* C11: analysisStep is one of 0, 1, 2, 3 and analysisProgress is between 0
\* and 100 in every state, and both are 0 while isAnalyzing is false (the
\* effect that resets them runs with the step that turns isAnalyzing false).
C11_StepAndOverallProgressBounded ==
    /\ analysisStep \in 0..3
    /\ FGeq(analysisProgress, FromInt(0))
    /\ FLeq(analysisProgress, Hundred)
    /\ ~isAnalyzing => (analysisStep = 0 /\ analysisProgress = FromInt(0))

C11_Witness ==
    /\ isAnalyzing
    /\ analysisStep = 3
    /\ FGeq(analysisProgress, FromInt(60))

\* C19: every session, also one started by an upload while the previous
\* session is analyzing, completes all five algorithms before it ends: when
\* isAnalyzing turns false, completedAlgorithms (emptied by the latest
\* upload) holds the name of every algorithm of the roster.
C19_EverySessionCompletesAllAlgorithms ==
    [][ (isAnalyzing /\ ~isAnalyzing') =>
            AlgorithmNames \subseteq Range(completedAlgorithms)
      ]_vars

\* C20: once the user uploads no further file and the timers keep firing,
\* App reaches and stays in a state where isAnalyzing is false and result is
\* the result computed for the file uploaded last.
C20_SettlesOnLatestResult ==
    <>[](session > 0 =>
            /\ ~isAnalyzing
            /\ result = <<generateConsistentResult(submitted[1])>>)

C20_Witness ==
    /\ session >= 2
    /\ ~cleanStart
    /\ timers = <<>>
    /\ ~isAnalyzing
    /\ result = <<generateConsistentResult(submitted[1])>>

\* The roster's names in ascending order of duration.
ExpectedCompletionOrder ==
    << "Feature Extraction Pipeline", "Random Forest Classification",
       "Support Vector Machine", "Ensemble Learning Model",
       "Deep Neural Network Analysis" >>

IsPrefix(s, t) == Len(s) <= Len(t) /\ s = SubSeq(t, 1, Len(s))

\* C21: in a session run from idle with no further upload the algorithms
\* complete in ascending order of duration, whatever their order in the
\* roster, each at its own tick: once the callbacks of the n-th update
\* interval have run, completedAlgorithms is the start of [Feature
\* Extraction Pipeline, Random Forest Classification, Support Vector
\* Machine, Ensemble Learning Model, Deep Neural Network Analysis] made of
\* the algorithms with duration / 50 <= n.
C21_CompletesInDurationOrder ==
    (UninterruptedSession /\ ~TimerDue) =>
        /\ IsPrefix(completedAlgorithms, ExpectedCompletionOrder)
        /\ \A a \in Algorithms :
               ANALYSIS_ALGORITHMS[a].name \in Range(completedAlgorithms)
                   <=> elapsed >= Ticks(a)

\* C22: while analyzing, analysisProgress stays below 100: the analysis ends
\* 9000 ms after the upload, before the 10 s (image) or 15 s (document)
\* window of the overall progress is over, so analysisProgress is at most 90
\* when the file is an image and at most 60 when it is a document.
C22_OverallProgressStopsShort ==
    isAnalyzing =>
        /\ ~FGeq(analysisProgress, Hundred)
        /\ FLeq(analysisProgress,
                FromInt(IF IsImageType(submitted[1].type) THEN 90 ELSE 60))

(***************************************************************************)
(* Properties of the pure functions, under ResultSpec.                     *)
(***************************************************************************)
\* The fingerprint of a file: the length of its name plus its size.
Fingerprint(file) == Len(file.name) + file.size

\* The indices (from 0) of an n-item catalog that fingerprint fp keeps modulo m.
Kept(fp, n, m) == {i \in 0..(n - 1) : (fp + i) % m = 0}

\* The index (from 0) in CKD_PARAMETERS of the parameter of a name.
CatalogIndexOf(name) ==
    CHOOSE i \in 0..(Len(CKD_PARAMETERS) - 1) : CKD_PARAMETERS[i + 1].name = name

StatusOf(fp, name) ==
    CASE (fp + Len(name)) % 3 = 0 -> "high"
      [] (fp + Len(name)) % 3 = 1 -> "low"
      [] (fp + Len(name)) % 3 = 2 -> "normal"

\* The parameters of the result are those the fingerprint keeps, each with
\* the status the fingerprint and the length of its name give.
KeptParametersWithStatus(fp, ps) ==
    /\ {CatalogIndexOf(ps[k].name) : k \in DOMAIN ps} = Kept(fp, Len(CKD_PARAMETERS), 3)
    /\ \A k \in DOMAIN ps : ps[k].status = StatusOf(fp, ps[k].name)

\* C12 as stated: for a document, the parameters are those at the catalog
\* indices i with (fingerprint + i) mod 3 = 0, the value of each is
\* (fingerprint * (i + 1)) mod 100 with i its index in the catalog, and its
\* status is high, low, normal for (fingerprint + length of its name) mod 3 =
\* 0, 1, 2.
C12_ValueFromCatalogIndex ==
    (result # <<>> /\ result[1].parameters # <<>>) =>
        LET fp == Fingerprint(submitted[1])
            ps == result[1].parameters[1]
        IN  /\ KeptParametersWithStatus(fp, ps)
            /\ \A k \in DOMAIN ps :
                   ps[k].value.tenths =
                       ((fp * (CatalogIndexOf(ps[k].name) + 1)) % 100) * 10

\* C12 as amended: the same, but the value of the k-th parameter kept
\* (k = 1, 2, ...) is (fingerprint * k) mod 100: the index is the position
\* among the parameters kept, which are in catalog order.
C12_ValueFromKeptPosition ==
    (result # <<>> /\ result[1].parameters # <<>>) =>
        LET fp == Fingerprint(submitted[1])
            ps == result[1].parameters[1]
        IN  /\ KeptParametersWithStatus(fp, ps)
            /\ \A k \in DOMAIN ps :
                   /\ ps[k].value.tenths = ((fp * k) % 100) * 10
                   /\ \A j \in DOMAIN ps :
                          j < k => CatalogIndexOf(ps[j].name) < CatalogIndexOf(ps[k].name)

C12_Witness ==
    /\ result # <<>>
    /\ result[1].parameters # <<>>
    /\ Len(result[1].parameters[1]) = 4
    /\ CatalogIndexOf(result[1].parameters[1][1].name) = 2
    /\ result[1].parameters[1][2].value.tenths # 0

\* C13: generateConsistentResult returns the same result, field by field,
\* for any two files with equal name length plus size and equal media
\* category (image or document), whatever the characters of their names and
\* their media types.
C13_ResultDependsOnFingerprintAndCategory ==
    result # <<>> =>
        \A n \in BaseNames, t \in Types :
            LET size  == Fingerprint(submitted[1]) - Len(n)
                other == [name |-> n, size |-> size, type |-> t]
            IN  (size >= 0 /\ IsImageType(t) = IsImageType(submitted[1].type)) =>
                    result[1] = generateConsistentResult(other)

C13_Witness ==
    /\ result # <<>>
    /\ submitted[1].name = <<97, 46, 116, 120, 116>>
    /\ submitted[1].size = 95
    /\ submitted[1].type = "image/jpeg"
    /\ result[1] = generateConsistentResult(
           [name |-> <<115, 99, 97, 110, 46, 112, 110, 103>>, size |-> 92,
            type |-> "image/png"])

\* The sequence kept (catalog indices from 0) is the first cap indices, in
\* ascending order, of those that fp keeps modulo m from an n-item catalog.
FirstKept(kept, fp, n, m, cap) ==
    /\ Len(kept) <= cap
    /\ \A k \in DOMAIN kept : kept[k] \in Kept(fp, n, m)
    /\ \A j, k \in DOMAIN kept : j < k => kept[j] < kept[k]
    /\ \A i \in Kept(fp, n, m) :
           i \in Range(kept) \/ (Len(kept) = cap /\ i > kept[cap])

\* C14: recommendations has at most 3 entries, dietaryRecommendations and
\* lifestyleRecommendations at most 5 each, and each is its catalog filtered
\* in catalog order (index i kept iff (fingerprint + i) mod 2 = 0 for
\* recommendations, mod 3 = 0 for the other two) and cut to the first 3, 5, 5.
C14_ListsAreCappedCatalogSubsequences ==
    result # <<>> =>
        LET fp == Fingerprint(submitted[1])
        IN  /\ FirstKept(result[1].recommendations.kept, fp, 5, 2, 3)
            /\ FirstKept(result[1].dietaryRecommendations, fp, 10, 3, 5)
            /\ FirstKept(result[1].lifestyleRecommendations, fp, 10, 3, 5)

C14_Witness ==
    /\ result # <<>>
    /\ result[1].recommendations.kept = <<0, 2, 4>>
    /\ result[1].dietaryRecommendations = <<0, 3, 6, 9>>
    /\ result[1].lifestyleRecommendations = <<0, 3, 6, 9>>

\* The flags, the probability and the confidence (both in hundredths) of
\* result r are those the formulas give for fingerprint fp.
FlagsAndScores(r, fp) ==
    /\ r.hasSwelling = (fp % 2 = 0)
    /\ r.hasShrinkage = (fp % 3 = 0)
    /\ r.hasPores = (fp % 4 = 0)
    /\ r.ckdProbability = fp % 100
    /\ r.confidence = 85 + (fp % 15)

\* C15 as stated: hasSwelling = (fp mod 2 = 0), hasShrinkage = (fp mod 3 = 0),
\* hasPores = (fp mod 4 = 0), ckdProbability = (fp mod 100) / 100 and
\* confidence = 0.85 + (fp mod 15) / 100; and a name of length 8 with size 92
\* (fp = 100) gives (true, false, true), ckdProbability 0 and confidence 0.85.
C15_ScenarioConfidence85 ==
    result # <<>> =>
        LET r  == result[1]
            fp == Fingerprint(submitted[1])
        IN  /\ FlagsAndScores(r, fp)
            /\ (Len(submitted[1].name) = 8 /\ submitted[1].size = 92) =>
                   /\ <<r.hasSwelling, r.hasShrinkage, r.hasPores>> = <<TRUE, FALSE, TRUE>>
                   /\ r.ckdProbability = 0
                   /\ r.confidence = 85

\* C15 as amended: the same formulas; a name of length 8 with size 92
\* (fp = 100) gives (true, false, true), ckdProbability 0 and confidence
\* 0.95, which is 0.85 + (100 mod 15) / 100.
C15_ScenarioConfidence95 ==
    result # <<>> =>
        LET r  == result[1]
            fp == Fingerprint(submitted[1])
        IN  /\ FlagsAndScores(r, fp)
            /\ (Len(submitted[1].name) = 8 /\ submitted[1].size = 92) =>
                   /\ <<r.hasSwelling, r.hasShrinkage, r.hasPores>> = <<TRUE, FALSE, TRUE>>
                   /\ r.ckdProbability = 0
                   /\ r.confidence = 95

C15_Witness ==
    /\ result # <<>>
    /\ Len(submitted[1].name) = 8
    /\ submitted[1].size = 92
    /\ result[1].confidence = 95

\* C16: for every fingerprint, ckdProbability is in [0, 0.99] and confidence
\* in [0.85, 1.0): in hundredths, 0..99 and 85..99.
C16_ProbabilityAndConfidenceInRange ==
    result # <<>> =>
        /\ result[1].ckdProbability \in 0..99
        /\ result[1].confidence \in 85..99

C16_Witness ==
    /\ result # <<>>
    /\ result[1].ckdProbability = 99
    /\ result[1].confidence = 99

\* base + variation, clamped to [850, 990] thousandths, for a name whose
\* character codes sum to hash.
ClampedTarget(base, hash) ==
    LET raw == base + (hash % 100) - 50
    IN  IF raw < 850 THEN 850 ELSE IF raw > 990 THEN 990 ELSE raw

\* C17: the target accuracy of every algorithm for a file name is
\* clamp(baseAccuracy + ((sum of the name's character codes mod 100) / 100)
\* * 0.1 - 0.05, 0.85, 0.99): it lies in [0.85, 0.99], is above the starting
\* accuracy 0.76, and is given by the name alone, whatever the file's size.
C17_TargetAccuracyIsClampedNameHash ==
    currentFileName # <<>> =>
        \A a \in Algorithms :
            LET target == ClampedTarget(ANALYSIS_ALGORITHMS[a].baseAccuracy,
                                        SumSeq(submitted[1].name))
            IN  /\ algorithmAccuracy[a] = target * AccuracyScale
                /\ target \in 850..990
                /\ algorithmAccuracy[a] > startingAccuracy

C17_Witness ==
    /\ currentFileName # <<>>
    /\ SumSeq(submitted[1].name) % 100 = 99
    /\ algorithmAccuracy[1] = 990 * AccuracyScale
    /\ algorithmAccuracy[5] = 939 * AccuracyScale

\* C18: the parameters field of the result is present exactly when the type
\* of the file does not start with "image/".
C18_ParametersIffDocument ==
    result # <<>> =>
        (result[1].parameters # <<>>
            <=> submitted[1].type \in {"application/pdf", "text/plain"})

C18_Witness ==
    /\ result # <<>>
    /\ submitted[1].type = "text/plain"
    /\ result[1].parameters # <<>>
    /\ ~result[1].isImage

====
